---- MODULE Spec2Model ----
(***************************************************************************)
(* Model of AppService (src/src/app.service.ts): the Score Deriver         *)
(* totalScoreByDamPreciseScoringFromTime, the Prediction Engine            *)
(* predictDamPreciseScoringTotalScore and the Counting Engine              *)
(* countDamPreciseScoringTotalScorePrediction.                             *)
(*                                                                         *)
(* Numbers.  JavaScript numbers are doubles, exact on the integers below   *)
(* 2^53.  The generator value and the sum value + time exceed the range of *)
(* the model checker's integers, so they are kept as base-2^16 limb pairs  *)
(* [hi, lo] standing for hi * 2^16 + lo, with hi unbounded above.  Unix    *)
(* seconds, scores and loop counters are plain integers.                   *)
(***************************************************************************)
EXTENDS Integers, Sequences, FiniteSets

VARIABLES
    pc,              \* position: idle, inside one of the loops, or returned
    args,            \* the arguments of the call in progress
    i,               \* loop counter of predict / outer loop counter of count
    j,               \* inner loop counter of count
    timeSpans,       \* count: Math.ceil(timeLimit / timeSpan), a JS number
    localStartTime,  \* count: start instant of the span in progress
    localTimeSpan,   \* count: length of the span in progress
    counters,        \* count: the four tallies of the span in progress
    result,          \* the list built by predict / count
    score,           \* the value returned by a direct Score Deriver call
    calls,           \* the Score Deriver invocations made by the last step
    last             \* the last predict call a caller kept (arguments, result)

vars == <<pc, args, i, j, timeSpans, localStartTime, localTimeSpan, counters,
          result, score, calls, last>>

----------------------------------------------------------------------------
(* Bounds of the model *)

MaxPredictLimit == 4
MaxCountLimit == 25
MaxTimeSpan == 10
MaxSeedOffset == 16
RawMargin == 10

(* Program constants *)

damPreciseScoringTotalScoreRandomizeThreshold == 99000
damPreciseScoringTotalScore100PointsThreshold == 99990
damPreciseScoringTotalScore100PointsProbability == 500
DefaultRawScore == 99999
HundredScore == 100000
JudgementModulus == 1000
JstHours == 9
SecondsPerHour == 60 * 60
SecondsPerDay == 24 * SecondsPerHour

(* Generator constants: the one-step linear congruential generator of the  *)
(* C library "seed, take one step" pattern, 32-bit wraparound.  The        *)
(* multiplier 1103515245 is held as its two 16-bit halves.                 *)
LcgMultiplierHi == 16838
LcgMultiplierLo == 20077
LcgIncrement == 12345

Limb == 256 * 256

----------------------------------------------------------------------------
(* Wide non-negative integers as limb pairs *)

W(n) == [hi |-> n \div Limb, lo |-> n % Limb]

WAdd(a, b) ==
    [hi |-> a.hi + b.hi + ((a.lo + b.lo) \div Limb), lo |-> (a.lo + b.lo) % Limb]

\* a mod m for 0 < m < 2^15
WMod(a, m) == (((a.hi % m) * (Limb % m)) + a.lo) % m

\* a mod 2^32
Wrap32(a) == [hi |-> a.hi % Limb, lo |-> a.lo]

\* (a * 1103515245) mod 2^32 for a < 2^32, by 16-bit halves
MulLcg32(a) ==
    LET low == a.lo * LcgMultiplierLo
        mid == ((a.hi * LcgMultiplierLo) % Limb) + ((a.lo * LcgMultiplierHi) % Limb)
    IN  [hi |-> ((low \div Limb) + mid) % Limb, lo |-> low % Limb]

----------------------------------------------------------------------------
(* Seeded Generator (./utilities/rand-r): state from the seed, one step *)

rand_r(seed) ==
    LET next == Wrap32(WAdd(MulLcg32(Wrap32(W(seed))), W(LcgIncrement)))
    IN  [random |-> next, next |-> next]

----------------------------------------------------------------------------
(* Score Deriver *)

NoValue == [hi |-> -1, lo |-> -1]

\* const randomValue = rand_r(time).random + time;   (a JS number addition)
RandomValueOf(time) == WAdd(rand_r(time).random, W(time))

\* Variants of the Score Deriver, each with one slip.

\* the modulus one too large
DeriverModulusOffByOne(time, rawScore) ==
    IF damPreciseScoringTotalScoreRandomizeThreshold < rawScore
    THEN LET randomValue == RandomValueOf(time)
             base == WMod(randomValue,
                          rawScore - damPreciseScoringTotalScoreRandomizeThreshold + 1)
                     + damPreciseScoringTotalScoreRandomizeThreshold
             judgement == WMod(randomValue, JudgementModulus)
         IN  [time |-> time, rawScore |-> rawScore, randomValue |-> randomValue,
              result |-> IF damPreciseScoringTotalScore100PointsThreshold < base
                            /\ judgement < damPreciseScoringTotalScore100PointsProbability
                         THEN HundredScore
                         ELSE base]
    ELSE [time |-> time, rawScore |-> rawScore, randomValue |-> NoValue,
          result |-> rawScore]

\* a randomize threshold five too low
DeriverLowThreshold(time, rawScore) ==
    LET threshold == damPreciseScoringTotalScoreRandomizeThreshold - 5
    IN  IF threshold < rawScore
        THEN LET randomValue == RandomValueOf(time)
                 base == WMod(randomValue, rawScore - threshold) + threshold
                 judgement == WMod(randomValue, JudgementModulus)
             IN  [time |-> time, rawScore |-> rawScore, randomValue |-> randomValue,
                  result |-> IF damPreciseScoringTotalScore100PointsThreshold < base
                                /\ judgement < damPreciseScoringTotalScore100PointsProbability
                             THEN HundredScore
                             ELSE base]
        ELSE [time |-> time, rawScore |-> rawScore, randomValue |-> NoValue,
              result |-> rawScore]

\* the 100-point threshold compared with rawScore instead of result
DeriverThresholdOnRawScore(time, rawScore) ==
    IF damPreciseScoringTotalScoreRandomizeThreshold < rawScore
    THEN LET randomValue == RandomValueOf(time)
             base == WMod(randomValue,
                          rawScore - damPreciseScoringTotalScoreRandomizeThreshold)
                     + damPreciseScoringTotalScoreRandomizeThreshold
             judgement == WMod(randomValue, JudgementModulus)
         IN  [time |-> time, rawScore |-> rawScore, randomValue |-> randomValue,
              result |-> IF damPreciseScoringTotalScore100PointsThreshold < rawScore
                            /\ judgement < damPreciseScoringTotalScore100PointsProbability
                         THEN HundredScore
                         ELSE base]
    ELSE [time |-> time, rawScore |-> rawScore, randomValue |-> NoValue,
          result |-> rawScore]

\* The locals and the return value of one invocation.
totalScoreByDamPreciseScoringFromTime(time, rawScore) ==
    IF damPreciseScoringTotalScoreRandomizeThreshold < rawScore
    THEN LET randomValue == RandomValueOf(time)
             base == WMod(randomValue,
                          rawScore - damPreciseScoringTotalScoreRandomizeThreshold)
                     + damPreciseScoringTotalScoreRandomizeThreshold
             judgement == WMod(randomValue, JudgementModulus)
         IN  [time |-> time, rawScore |-> rawScore, randomValue |-> randomValue,
              result |-> IF damPreciseScoringTotalScore100PointsThreshold < base
                            /\ judgement < damPreciseScoringTotalScore100PointsProbability
                         THEN HundredScore
                         ELSE base]
    ELSE [time |-> time, rawScore |-> rawScore, randomValue |-> NoValue,
          result |-> rawScore]

----------------------------------------------------------------------------
(* Instants (dayjs objects): whole seconds since the epoch and the         *)
(* millisecond within the second; valueOf() is sec * 1000 + ms.            *)

Instant(sec, ms) == [sec |-> sec, ms |-> ms]

\* startTime.add(n, "second")
AddSeconds(t, n) == [sec |-> t.sec + n, ms |-> t.ms]

\* time.add(n, "hour")
AddHours(t, n) == [sec |-> t.sec + n * SecondsPerHour, ms |-> t.ms]

\* Math.floor(time.valueOf() / 1000): the millisecond part is dropped
UnixSeconds(t) == t.sec

\* time.toISOString(): the UTC calendar fields, most significant first; the
\* date part is kept as the day number, which orders as year-month-day does.
ToISO(t) ==
    << t.sec \div SecondsPerDay,
       (t.sec % SecondsPerDay) \div SecondsPerHour,
       (t.sec % SecondsPerHour) \div 60,
       t.sec % 60,
       t.ms >>

\* the order of ISO strings: field by field, left to right
RECURSIVE IsoLessFrom(_, _, _)
IsoLessFrom(a, b, k) ==
    IF k > Len(a) THEN FALSE
    ELSE a[k] < b[k] \/ (a[k] = b[k] /\ IsoLessFrom(a, b, k + 1))

IsoLess(a, b) == IsoLessFrom(a, b, 1)

----------------------------------------------------------------------------
(* JavaScript numbers that need not be finite: Math.ceil(timeLimit/timeSpan) *)

Num(n) == [kind |-> "num", val |-> n]

\* Math.ceil(a / b) for integers a, b
CeilDiv(a, b) ==
    IF b = 0
    THEN [kind |-> IF a > 0 THEN "inf" ELSE IF a < 0 THEN "ninf" ELSE "nan", val |-> 0]
    ELSE IF b > 0 THEN Num(-((-a) \div b))
    ELSE Num(-(a \div (-b)))

\* i < n
JsLess(k, n) == (n.kind = "inf") \/ (n.kind = "num" /\ k < n.val)

\* a % b for integers, b # 0: the sign of the dividend
JsRem(a, b) ==
    LET d == IF b < 0 THEN -b ELSE b
    IN  IF a >= 0 THEN a % d ELSE -((-a) % d)

----------------------------------------------------------------------------
(* Pieces of the loop bodies *)

\* slip: the JST branch left out
UnixtimeIgnoringJst(time, isJst) == UnixSeconds(time)

\* predict, lines 86-91: the seed of iteration time `time`
UnixtimeOf(time, isJst) ==
    IF isJst THEN UnixSeconds(AddHours(time, JstHours)) ELSE UnixSeconds(time)

\* slip: the threshold tested first, without the "!== 100000" guard
ScoreTypeThresholdFirst(s) ==
    IF damPreciseScoringTotalScore100PointsThreshold < s THEN "Quadruple"
    ELSE IF s = HundredScore THEN "Hundred"
         ELSE "Normal"

\* predict, lines 98-108
ScoreTypeOf(s) ==
    IF s = HundredScore THEN "Hundred"
    ELSE IF damPreciseScoringTotalScore100PointsThreshold < s /\ s # HundredScore
         THEN "Quadruple"
         ELSE "Normal"

\* slip: the Hundred category filtered by includeNormal
IncludedWrongFlag(scoreType, a) ==
    \/ a.includeNormal /\ scoreType = "Hundred"
    \/ a.includeQuadruple /\ scoreType = "Quadruple"
    \/ a.includeNormal /\ scoreType = "Normal"

\* predict, lines 110-114
Included(scoreType, a) ==
    \/ a.include100 /\ scoreType = "Hundred"
    \/ a.includeQuadruple /\ scoreType = "Quadruple"
    \/ a.includeNormal /\ scoreType = "Normal"

\* predict, lines 94-96: "<integer>.<three digits>"
ScoreString(s) ==
    << s \div 1000, (s % 1000) \div 100, (s % 100) \div 10, s % 10 >>

\* count, lines 165-172 and 176-183: the tally increments for one score
HundredStep(s) == IF s = HundredScore THEN 1 ELSE 0

\* slip: "if" in place of "else if", without the "!== 100000" guard
QuadrupleStepNoElse(s) ==
    IF damPreciseScoringTotalScore100PointsThreshold < s THEN 1 ELSE 0

QuadrupleStep(s) ==
    IF s = HundredScore THEN 0
    ELSE IF damPreciseScoringTotalScore100PointsThreshold < s /\ s # HundredScore
         THEN 1 ELSE 0

\* slip: the last span never truncated
LocalTimeSpanUntruncated(k, spans, timeLimit, timeSpan) == timeSpan

\* count, lines 153-154
LocalTimeSpanOf(k, spans, timeLimit, timeSpan) ==
    IF spans.kind = "num" /\ k = spans.val - 1 /\ timeSpan # 0
       /\ JsRem(timeLimit, timeSpan) # 0
    THEN JsRem(timeLimit, timeSpan)
    ELSE timeSpan

----------------------------------------------------------------------------
(* Inputs *)

\* 2022-01-01T00:00:00Z, day 18993 of the epoch: 1640995200
ScenarioStart == 18993 * SecondsPerDay
\* 1641000362; UTC seeds from here: Hundred at +2, Quadruple at +15
HitStartA == ScenarioStart + 5162
\* 1641017841; UTC seeds from here: Quadruple at +2, Hundred at +15
HitStartB == ScenarioStart + 22641

StartInstants ==
    { Instant(ScenarioStart, 0),
      Instant(HitStartA, 0), Instant(HitStartA - JstHours * SecondsPerHour, 0),
      Instant(HitStartB, 500), Instant(HitStartB - JstHours * SecondsPerHour, 500) }

DeriveSeeds == {0} \cup { HitStartA + k : k \in 0..MaxSeedOffset }

RawScores ==
    {0} \cup ((damPreciseScoringTotalScoreRandomizeThreshold - RawMargin)
                 .. (damPreciseScoringTotalScoreRandomizeThreshold + RawMargin))
        \cup ((HundredScore - RawMargin) .. HundredScore)

MaxRecords == MaxCountLimit + 2

----------------------------------------------------------------------------
(* State *)

NoInstant == Instant(0, 0)
NoArgs ==
    [op |-> "none", startTime |-> NoInstant, timeLimit |-> 0, timeSpan |-> 0,
     isJst |-> FALSE, includeNormal |-> FALSE, includeQuadruple |-> FALSE,
     include100 |-> FALSE, time |-> 0, rawScore |-> 0]
NoCounters ==
    [hundredCountUtc |-> 0, quadrupleCountUtc |-> 0,
     hundredCountJst |-> 0, quadrupleCountJst |-> 0]
NoCall == [args |-> NoArgs, result |-> << >>]

Init ==
    /\ pc = "idle"
    /\ args = NoArgs
    /\ i = 0
    /\ j = 0
    /\ timeSpans = Num(0)
    /\ localStartTime = NoInstant
    /\ localTimeSpan = 0
    /\ counters = NoCounters
    /\ result = << >>
    /\ score = -1
    /\ calls = << >>
    /\ last = NoCall

----------------------------------------------------------------------------
(* A direct call of the Score Deriver *)

Derive ==
    /\ pc = "idle"
    /\ \E time \in DeriveSeeds, rawScore \in RawScores :
          LET call == totalScoreByDamPreciseScoringFromTime(time, rawScore)
          IN  /\ args' = [NoArgs EXCEPT !.op = "derive", !.time = time,
                                        !.rawScore = rawScore]
              /\ calls' = << call >>
              /\ score' = call.result
    /\ pc' = "derive_done"
    /\ UNCHANGED <<i, j, timeSpans, localStartTime, localTimeSpan, counters,
                   result, last>>

----------------------------------------------------------------------------
(* predictDamPreciseScoringTotalScore *)

CallPredict ==
    /\ pc = "idle"
    /\ \E startTime \in StartInstants, timeLimit \in -1..MaxPredictLimit,
          isJst \in BOOLEAN, includeNormal \in BOOLEAN,
          includeQuadruple \in BOOLEAN, include100 \in BOOLEAN :
          args' = [NoArgs EXCEPT !.op = "predict", !.startTime = startTime,
                                 !.timeLimit = timeLimit, !.isJst = isJst,
                                 !.includeNormal = includeNormal,
                                 !.includeQuadruple = includeQuadruple,
                                 !.include100 = include100]
    /\ pc' = "predict"
    /\ i' = 0
    /\ result' = << >>
    /\ calls' = << >>
    /\ UNCHANGED <<j, timeSpans, localStartTime, localTimeSpan, counters,
                   score, last>>

\* one iteration of the loop of line 84
PredictStepGuard == pc = "predict" /\ i < args.timeLimit

PredictStep ==
    /\ PredictStepGuard
    /\ LET time == AddSeconds(args.startTime, i)
           unixtime == UnixtimeOf(time, args.isJst)
           call == totalScoreByDamPreciseScoringFromTime(unixtime, DefaultRawScore)
           scoreType == ScoreTypeOf(call.result)
       IN  /\ calls' = << call >>
           /\ result' =
                IF Included(scoreType, args)
                THEN Append(result, [time |-> ToISO(time),
                                     scoreInteger |-> call.result,
                                     scoreString |-> ScoreString(call.result),
                                     scoreType |-> scoreType])
                ELSE result
    /\ i' = i + 1
    /\ UNCHANGED <<pc, args, j, timeSpans, localStartTime, localTimeSpan,
                   counters, score, last>>

PredictReturnGuard == pc = "predict" /\ ~(i < args.timeLimit)

PredictReturn ==
    /\ PredictReturnGuard
    /\ pc' = "predict_done"
    /\ UNCHANGED <<args, i, j, timeSpans, localStartTime, localTimeSpan,
                   counters, result, score, calls, last>>

----------------------------------------------------------------------------
(* countDamPreciseScoringTotalScorePrediction *)

CallCount ==
    /\ pc = "idle"
    /\ \E startTime \in StartInstants, timeSpan \in -1..MaxTimeSpan,
          timeLimit \in -1..MaxCountLimit :
          /\ args' = [NoArgs EXCEPT !.op = "count", !.startTime = startTime,
                                    !.timeSpan = timeSpan, !.timeLimit = timeLimit]
          /\ timeSpans' = CeilDiv(timeLimit, timeSpan)
    /\ pc' = "count_outer"
    /\ i' = 0
    /\ result' = << >>
    /\ calls' = << >>
    /\ UNCHANGED <<j, localStartTime, localTimeSpan, counters, score, last>>

\* lines 151-159: entering one iteration of the outer loop.  A loop that
\* never ends (timeSpans = Infinity) is followed for MaxRecords iterations.
CountSpanBeginGuard ==
    /\ pc = "count_outer"
    /\ JsLess(i, timeSpans)
    /\ Len(result) < MaxRecords

CountSpanBegin ==
    /\ CountSpanBeginGuard
    /\ localStartTime' = AddSeconds(args.startTime, i * args.timeSpan)
    /\ localTimeSpan' = LocalTimeSpanOf(i, timeSpans, args.timeLimit, args.timeSpan)
    /\ counters' = NoCounters
    /\ j' = 0
    /\ calls' = << >>
    /\ pc' = "count_inner"
    /\ UNCHANGED <<args, i, timeSpans, result, score, last>>

\* lines 160-184: one iteration of the inner loop
CountSecondGuard == pc = "count_inner" /\ j < localTimeSpan

CountSecond ==
    /\ CountSecondGuard
    /\ LET timeUtc == AddSeconds(localStartTime, j)
           unixtimeUtc == UnixSeconds(timeUtc)
           callUtc == totalScoreByDamPreciseScoringFromTime(unixtimeUtc, DefaultRawScore)
           unixtimeJst == UnixSeconds(AddHours(timeUtc, JstHours))
           callJst == totalScoreByDamPreciseScoringFromTime(unixtimeJst, DefaultRawScore)
       IN  /\ calls' = << callUtc, callJst >>
           /\ counters' =
                [hundredCountUtc |-> counters.hundredCountUtc + HundredStep(callUtc.result),
                 quadrupleCountUtc |-> counters.quadrupleCountUtc + QuadrupleStep(callUtc.result),
                 hundredCountJst |-> counters.hundredCountJst + HundredStep(callJst.result),
                 quadrupleCountJst |-> counters.quadrupleCountJst + QuadrupleStep(callJst.result)]
    /\ j' = j + 1
    /\ UNCHANGED <<pc, args, i, timeSpans, localStartTime, localTimeSpan,
                   result, score, last>>

\* lines 186-197: the span's record is pushed and the outer loop advances
CountSpanEndGuard == pc = "count_inner" /\ ~(j < localTimeSpan)

CountSpanEnd ==
    /\ CountSpanEndGuard
    /\ result' = Append(result,
          [startTime |-> ToISO(localStartTime),
           endTime |-> ToISO(AddSeconds(localStartTime, localTimeSpan)),
           utc |-> [hundredCount |-> counters.hundredCountUtc,
                    quadrupleCount |-> counters.quadrupleCountUtc],
           jst |-> [hundredCount |-> counters.hundredCountJst,
                    quadrupleCount |-> counters.quadrupleCountJst]])
    /\ i' = i + 1
    /\ pc' = "count_outer"
    /\ UNCHANGED <<args, j, timeSpans, localStartTime, localTimeSpan, counters,
                   score, calls, last>>

CountReturnGuard == pc = "count_outer" /\ ~JsLess(i, timeSpans)

CountReturn ==
    /\ CountReturnGuard
    /\ pc' = "count_done"
    /\ UNCHANGED <<args, i, j, timeSpans, localStartTime, localTimeSpan,
                   counters, result, score, calls, last>>

----------------------------------------------------------------------------
(* The caller *)

Returned == pc \in {"derive_done", "predict_done", "count_done"}

Cleared ==
    /\ pc' = "idle"
    /\ args' = NoArgs
    /\ i' = 0
    /\ j' = 0
    /\ timeSpans' = Num(0)
    /\ localStartTime' = NoInstant
    /\ localTimeSpan' = 0
    /\ counters' = NoCounters
    /\ result' = << >>
    /\ score' = -1
    /\ calls' = << >>

\* the caller takes the returned value; the next call starts afresh
Return ==
    /\ Returned
    /\ Cleared
    /\ UNCHANGED last

\* a caller that keeps the list of a UTC-seeded predict call to compare it
\* with the list of its next call
Keep ==
    /\ pc = "predict_done"
    /\ ~args.isJst
    /\ last' = [args |-> args, result |-> result]
    /\ Cleared

\* whether the call in progress has a next step: the guards of the loop
\* steps (each step, once its guard holds, is defined)
CanStep ==
    \/ PredictStepGuard
    \/ PredictReturnGuard
    \/ CountSpanBeginGuard
    \/ CountSecondGuard
    \/ CountSpanEndGuard
    \/ CountReturnGuard

Next ==
    \/ Derive
    \/ CallPredict
    \/ PredictStep
    \/ PredictReturn
    \/ CallCount
    \/ CountSpanBegin
    \/ CountSecond
    \/ CountSpanEnd
    \/ CountReturn
    \/ Return

Spec == Init /\ [][Next]_vars


\* two successive predict calls of one caller
NextPair ==
    \/ CallPredict
    \/ PredictStep
    \/ PredictReturn
    \/ Keep

SpecPair == Init /\ [][NextPair]_vars

----------------------------------------------------------------------------
(* Properties of the Score Deriver.  Each is stated of every invocation the *)
(* last step made (a direct call, an iteration of predict, a second of     *)
(* count) and of the value a direct call returned.                         *)

DerivedDirectly == pc = "derive_done"

\* C1: for rawScore in (99000, 100000] the score returned lies in
\* [99000, rawScore - 1] or equals 100000, and every score produced with the
\* default baseline 99999 lies in [0, 100000].
C1_ScoreRange ==
    /\ \A k \in DOMAIN calls :
          LET c == calls[k]
          IN  /\ (c.rawScore > 99000 /\ c.rawScore <= 100000)
                    => \/ (99000 <= c.result /\ c.result <= c.rawScore - 1)
                       \/ c.result = 100000
              /\ c.rawScore = 99999 => (0 <= c.result /\ c.result <= 100000)
    /\ (DerivedDirectly /\ args.rawScore > 99000)
          => \/ (99000 <= score /\ score <= args.rawScore - 1)
             \/ score = 100000

\* a direct call that returns the largest randomized score, rawScore - 1
C1_Witness ==
    /\ DerivedDirectly
    /\ args.rawScore > 99001
    /\ score = args.rawScore - 1

\* C2: for rawScore <= 99000 the Score Deriver returns rawScore itself and
\* never computes randomValue: no randomization, no 100000 override.
C2_PassThrough ==
    /\ \A k \in DOMAIN calls :
          calls[k].rawScore <= 99000
             => calls[k].result = calls[k].rawScore /\ calls[k].randomValue = NoValue
    /\ (DerivedDirectly /\ args.rawScore <= 99000) => score = args.rawScore

\* a direct call at the threshold itself
C2_Witness ==
    /\ DerivedDirectly
    /\ args.rawScore = 99000
    /\ score = 99000
    /\ calls[1].randomValue = NoValue

\* C7: randomValue is the sum value + unixSeconds wrapped to 32 bits, so it
\* is always below 2^32.
C7_RandomValueWraps ==
    \A k \in DOMAIN calls :
       calls[k].randomValue # NoValue
          => /\ calls[k].randomValue
                  = Wrap32(WAdd(rand_r(calls[k].time).random, W(calls[k].time)))
             /\ calls[k].randomValue.hi < Limb

\* C9: for rawScore > 99000, with base = randomValue mod (rawScore - 99000)
\* + 99000, the result is 100000 exactly when base > 99990 and randomValue
\* mod 1000 < 500, and base otherwise; so a result strictly between 99990 and
\* 100000 occurs exactly when base > 99990 and randomValue mod 1000 >= 500.
C9_OverrideRule ==
    \A k \in DOMAIN calls :
       LET c == calls[k]
           base == WMod(c.randomValue, c.rawScore - 99000) + 99000
           judgement == WMod(c.randomValue, 1000)
       IN  c.rawScore > 99000
              => /\ c.randomValue # NoValue
                 /\ c.result = 100000 <=> (base > 99990 /\ judgement < 500)
                 /\ c.result # 100000 => c.result = base
                 /\ (99990 < c.result /\ c.result < 100000)
                       <=> (base > 99990 /\ judgement >= 500)
                 /\ base <= 99990 => c.result # 100000

\* an invocation whose base passed the threshold and was overridden
C9_Witness ==
    \E k \in DOMAIN calls :
       /\ calls[k].rawScore > 99000
       /\ WMod(calls[k].randomValue, calls[k].rawScore - 99000) + 99000 > 99990
       /\ WMod(calls[k].randomValue, 1000) < 500
       /\ calls[k].result = 100000

----------------------------------------------------------------------------
(* Vocabulary of the properties of predict and count *)

\* the category of a score by the documented thresholds
CategoryOf(s) ==
    IF s = 100000 THEN "Hundred"
    ELSE IF 99990 < s /\ s < 100000 THEN "Quadruple"
    ELSE "Normal"

\* the include flag of a category
FlagFor(scoreType, a) ==
    CASE scoreType = "Hundred" -> a.include100
      [] scoreType = "Quadruple" -> a.includeQuadruple
      [] scoreType = "Normal" -> a.includeNormal
      [] OTHER -> FALSE

\* the score of the second seeded with unix time sec (default baseline)
ScoreAt(sec) == totalScoreByDamPreciseScoringFromTime(sec, 99999).result

\* the seconds since the epoch an ISO time denotes
IsoSeconds(t) == t[1] * 86400 + t[2] * 3600 + t[3] * 60 + t[4]

InPredict == args.op = "predict"
InCount == args.op = "count"

\* the JST shift of the seed, in seconds
JstShift(a) == IF a.isJst THEN 32400 ELSE 0

\* C3: for positive durationSeconds, predict's list has at most
\* durationSeconds records, strictly ascending in time; every record is of a
\* category whose include flag is true, and every second (so far iterated)
\* whose category's flag is true has its record.
C3_PredictFiltered ==
    (InPredict /\ args.timeLimit > 0)
       => /\ Len(result) <= i
          /\ i <= args.timeLimit
          /\ \A k \in 1..(Len(result) - 1) : IsoLess(result[k].time, result[k + 1].time)
          /\ \A k \in DOMAIN result : FlagFor(result[k].scoreType, args)
          /\ \A idx \in 0..(i - 1) :
                FlagFor(CategoryOf(ScoreAt(args.startTime.sec + idx + JstShift(args))), args)
                   <=> \E k \in DOMAIN result :
                          result[k].time = ToISO(AddSeconds(args.startTime, idx))

\* predict returned a window holding a Hundred second, which the flags drop,
\* between Normal seconds, which they keep
C3_Witness ==
    /\ pc = "predict_done"
    /\ args.timeLimit = 4
    /\ args.includeNormal /\ ~args.include100
    /\ \E idx \in 0..3 : ScoreAt(args.startTime.sec + idx + JstShift(args)) = 100000
    /\ Len(result) = 3

\* C4 (what is returned): for positive spanSeconds and durationSeconds count
\* returns ceil(durationSeconds / spanSeconds) records in chronological order,
\* the first starting at startInstant, each starting where the previous one
\* ends, the last ending at startInstant + durationSeconds, every span of
\* length spanSeconds but the last, which has the non-zero remainder.
C4Positive == InCount /\ args.timeSpan > 0 /\ args.timeLimit > 0

C4Spans == (args.timeLimit + args.timeSpan - 1) \div args.timeSpan

C4SpanLength(k) ==
    IF k = C4Spans /\ args.timeLimit % args.timeSpan # 0
    THEN args.timeLimit % args.timeSpan
    ELSE args.timeSpan

C4_PartitionInv ==
    C4Positive
       => /\ Len(result) = i
          /\ i <= C4Spans
          /\ pc = "count_inner" => (i < C4Spans /\ j <= localTimeSpan)
          /\ pc = "count_done" => Len(result) = C4Spans
          /\ \A k \in DOMAIN result :
                /\ result[k].startTime
                      = ToISO(AddSeconds(args.startTime, (k - 1) * args.timeSpan))
                /\ IsoSeconds(result[k].endTime) - IsoSeconds(result[k].startTime)
                      = C4SpanLength(k)
                /\ result[k].endTime[5] = result[k].startTime[5]
                /\ IsoLess(result[k].startTime, result[k].endTime)
          /\ \A k \in 1..(Len(result) - 1) : result[k + 1].startTime = result[k].endTime
          /\ pc = "count_done"
                => /\ result[1].startTime = ToISO(args.startTime)
                   /\ result[Len(result)].endTime
                         = ToISO(AddSeconds(args.startTime, args.timeLimit))

\* the steps the call in progress has left, at most: each step of the loops
\* lowers it, and it is never negative
C4Measure ==
    CASE pc = "count_outer" -> (C4Spans - i) * (args.timeSpan + 2) + 1
      [] pc = "count_inner" -> (C4Spans - i) * (args.timeSpan + 2) - j
      [] OTHER -> 0

C4Looping == C4Positive /\ pc \in {"count_outer", "count_inner"}

\* a call in progress always has a next step
C4_NeverStuck == C4Looping => CanStep

\* every step of a call in progress lowers the measure
C4_Decreases == C4Looping => (0 <= C4Measure' /\ C4Measure' < C4Measure)

\* C4: count terminates for positive spanSeconds and durationSeconds (it
\* always has a next step until it returns, and each step lowers a
\* non-negative measure), and returns the partition described above.
C4_Partition ==
    /\ []C4_PartitionInv
    /\ []C4_NeverStuck
    /\ [][C4_Decreases]_vars

\* span 10, duration 25: three records of lengths 10, 10 and 5
C4_Witness ==
    /\ pc = "count_done"
    /\ args.timeSpan = 10 /\ args.timeLimit = 25
    /\ Len(result) = 3
    /\ IsoSeconds(result[1].endTime) - IsoSeconds(result[1].startTime) = 10
    /\ IsoSeconds(result[2].endTime) - IsoSeconds(result[2].startTime) = 10
    /\ IsoSeconds(result[3].endTime) - IsoSeconds(result[3].startTime) = 5

\* the sum of one tally over the records returned
RECURSIVE SumCount(_, _, _)
SumCount(k, zone, field) ==
    IF k = 0 THEN 0
    ELSE (IF zone = "utc" THEN result[k].utc[field] ELSE result[k].jst[field])
         + SumCount(k - 1, zone, field)

\* the seconds of the whole window of one category, tallied in one pass
WindowTally(shift, category) ==
    Cardinality({ t \in 0..(args.timeLimit - 1) :
                    CategoryOf(ScoreAt(args.startTime.sec + t + shift)) = category })

\* C5: for positive spanSeconds and durationSeconds, each of the four tallies
\* summed over the records returned equals the number of seconds of the whole
\* window whose UTC-seeded (JST-seeded: seed + 32400) score is of the category.
C5_TalliesAddUp ==
    (C4Positive /\ pc = "count_done")
       => /\ SumCount(Len(result), "utc", "hundredCount") = WindowTally(0, "Hundred")
          /\ SumCount(Len(result), "utc", "quadrupleCount") = WindowTally(0, "Quadruple")
          /\ SumCount(Len(result), "jst", "hundredCount") = WindowTally(32400, "Hundred")
          /\ SumCount(Len(result), "jst", "quadrupleCount") = WindowTally(32400, "Quadruple")

\* a window of several spans holding a Hundred and a Quadruple second in
\* different spans
C5_Witness ==
    /\ pc = "count_done"
    /\ C4Positive
    /\ Len(result) >= 3
    /\ SumCount(Len(result), "utc", "hundredCount") = 1
    /\ SumCount(Len(result), "utc", "quadrupleCount") = 1
    /\ \E a, b \in DOMAIN result :
          a # b /\ result[a].utc.hundredCount = 1 /\ result[b].utc.quadrupleCount = 1

\* C6: a call with durationSeconds <= 0 (predict, count) or spanSeconds <= 0
\* (count) fails before any iteration: it never returns a list, never enters
\* a loop body and derives nothing.
C6InvalidWindow ==
    \/ InPredict /\ args.timeLimit <= 0
    \/ InCount /\ (args.timeLimit <= 0 \/ args.timeSpan <= 0)

C6_InvalidWindowFails ==
    C6InvalidWindow
       => /\ pc \notin {"predict_done", "count_done", "count_inner"}
          /\ i = 0
          /\ result = << >>
          /\ calls = << >>

\* C8 (predict): every record's category follows from its scoreInteger by
\* the thresholds 100000 and 99990, the three cases exclusive and exhaustive
\* over [0, 100000].
C8_RecordCategories ==
    InPredict
       => \A k \in DOMAIN result :
             LET r == result[k]
             IN  /\ 0 <= r.scoreInteger /\ r.scoreInteger <= 100000
                 /\ r.scoreType \in {"Hundred", "Quadruple", "Normal"}
                 /\ r.scoreType = "Hundred" <=> r.scoreInteger = 100000
                 /\ r.scoreType = "Quadruple"
                       <=> (99990 < r.scoreInteger /\ r.scoreInteger < 100000)
                 /\ r.scoreType = "Normal" <=> r.scoreInteger <= 99990

\* C8 (count): each second of count raises the hundred tally of a zone by one
\* exactly when its score is 100000 and the quadruple tally by one exactly
\* when its score is strictly between 99990 and 100000.
C8_CountSteps ==
    (pc = "count_inner" /\ pc' = "count_inner")
       => /\ Len(calls') = 2
          /\ counters'.hundredCountUtc - counters.hundredCountUtc
                = (IF calls'[1].result = 100000 THEN 1 ELSE 0)
          /\ counters'.quadrupleCountUtc - counters.quadrupleCountUtc
                = (IF 99990 < calls'[1].result /\ calls'[1].result < 100000 THEN 1 ELSE 0)
          /\ counters'.hundredCountJst - counters.hundredCountJst
                = (IF calls'[2].result = 100000 THEN 1 ELSE 0)
          /\ counters'.quadrupleCountJst - counters.quadrupleCountJst
                = (IF 99990 < calls'[2].result /\ calls'[2].result < 100000 THEN 1 ELSE 0)

\* C8: the categories of predict's records and the tallies of count follow
\* the same thresholds.
C8_Classification == []C8_RecordCategories /\ [][C8_CountSteps]_vars

\* predict returned a Hundred record after a Normal one
C8_Witness ==
    /\ pc = "predict_done"
    /\ \E a, b \in DOMAIN result :
          /\ a < b
          /\ result[a].scoreType = "Normal"
          /\ result[b].scoreType = "Hundred"
          /\ result[b].scoreInteger = 100000

\* C10, one call: iteration idx is seeded with unix(startInstant + idx), plus
\* 32400 when useJstOffset, and its record carries startInstant + idx.
C10Iterations ==
    InPredict
       => /\ (i > 0 /\ calls # << >>)
                => calls[1].time = args.startTime.sec + (i - 1) + JstShift(args)
          /\ \A k \in DOMAIN result :
                \E idx \in 0..(i - 1) :
                   /\ result[k].time = ToISO(AddSeconds(args.startTime, idx))
                   /\ IsoSeconds(result[k].time) = args.startTime.sec + idx
                   /\ result[k].scoreInteger
                         = ScoreAt(args.startTime.sec + idx + JstShift(args))

\* the call kept was predict(start + 9 hours, d, false, flags) and the call
\* that returned is predict(start, d, true, flags)
C10Paired ==
    /\ pc = "predict_done"
    /\ last.args.op = "predict"
    /\ args.isJst /\ ~last.args.isJst
    /\ last.args.startTime = [sec |-> args.startTime.sec + 32400, ms |-> args.startTime.ms]
    /\ last.args.timeLimit = args.timeLimit
    /\ last.args.includeNormal = args.includeNormal
    /\ last.args.includeQuadruple = args.includeQuadruple
    /\ last.args.include100 = args.include100

\* C10: record times are startInstant + i whatever useJstOffset is, seeds are
\* shifted by 32400 under useJstOffset; so predict(start, d, true) and
\* predict(start + 9 hours, d, false) agree index by index on scores and
\* categories, with times 9 hours apart.
C10_JstShift ==
    /\ C10Iterations
    /\ C10Paired
          => /\ Len(result) = Len(last.result)
             /\ \A k \in DOMAIN result :
                   /\ result[k].scoreInteger = last.result[k].scoreInteger
                   /\ result[k].scoreString = last.result[k].scoreString
                   /\ result[k].scoreType = last.result[k].scoreType
                   /\ IsoSeconds(last.result[k].time) - IsoSeconds(result[k].time) = 32400
                   /\ last.result[k].time[5] = result[k].time[5]

\* a JST-seeded call returned, after the UTC-seeded call nine hours later,
\* both holding a Hundred record
C10_Witness ==
    /\ C10Paired
    /\ Len(result) >= 3
    /\ \E k \in DOMAIN result : result[k].scoreType = "Hundred"

====
